---- MODULE Spec2Model ----
(***************************************************************************)
(* A state-machine model of GetStrideDataDurationAlgo.processAlgorithm     *)
(* (src/stride_locations.py): query construction, the synchronous GET,     *)
(* reply classification, schema mapping, geometry projection and feature   *)
(* emission with progress and cooperative cancellation.                    *)
(*                                                                         *)
(* Python / JSON values are tagged records [kind, v] so that values of     *)
(* different Python types stay comparable:                                 *)
(*   kind "None"    JSON null / Python None                                *)
(*   kind "num"     a JSON number (v is the number)                        *)
(*   kind "numtext" a string that float() accepts (v is its value)         *)
(*   kind "text"    a string that is neither a number nor an ISO date      *)
(*   kind "isotext" a string in ISO-8601 date format (v identifies it)     *)
(*   kind "list"    a JSON array nested in a record                        *)
(* A dict is a function whose DOMAIN is the set of keys present.           *)
(***************************************************************************)
EXTENDS Integers, Sequences, FiniteSets

VARIABLES
    pc,                \* position in processAlgorithm
    params_str,        \* INPUT_PARAMS text
    extent,            \* INPUT_EXTENT rectangle (with its CRS)
    start_time,        \* INPUT_START_TIME (QDateTime)
    duration_minutes,  \* INPUT_DURATION
    params,            \* the query-parameter dict
    url,               \* the query of the request URL, as encoded
    getCount,          \* number of manager.get calls
    reply,             \* the finished QNetworkReply
    released,          \* number of reply.deleteLater calls
    data,              \* the decoded JSON value
    parsedOk,          \* json.loads returned a value
    sinkOpened,        \* number of parameterAsSink calls
    sink,              \* features added to the sink, in order
    i,                 \* number of loop iterations completed or left by continue
    canceled,          \* feedback.isCanceled()
    cancelObserved,    \* the loop saw isCanceled() and broke out
    progress,          \* the values passed to feedback.setProgress, in order
    infos,             \* kinds of feedback.pushInfo notices issued
    result,            \* the returned dict's OUTPUT entry
    error              \* the exception that left processAlgorithm, if any

vars == <<pc, params_str, extent, start_time, duration_minutes, params, url,
          getCount, reply, released, data, parsedOk, sinkOpened, sink, i,
          canceled, cancelObserved, progress, infos, result, error>>

----------------------------------------------------------------------------
(* Bounds and input sets                                                   *)

MaxRecords == 3

V(k, n) == [kind |-> k, v |-> n]
None == V("None", 0)

EmptyDict == [k \in {} |-> None]

Put(d, k, val) == [x \in (DOMAIN d) \cup {k} |-> IF x = k THEN val ELSE d[x]]

\* The dict with the given <<key, value>> pairs.
Dict(pairs) ==
    [k \in {p[1] : p \in pairs} |-> (CHOOSE p \in pairs : p[1] = k)[2]]

\* dict.get(key): None when the key is absent
Get(item, k) == IF k \in DOMAIN item THEN item[k] ELSE None

----------------------------------------------------------------------------
(* Parameters of the call                                                  *)

\* Texts of INPUT_PARAMS offered to the algorithm ("" is the unset option).
ParamTexts ==
    { "", "{bad", "[1, 2]", "bad_name", "{'limit': 1000}",
      "{'recorded_at_time_to': 'x', 'lon__greater_or_equal': 0}" }

\* eval(params_str): the exception it raises ("none" when it returns), and
\* the value it returns: whether it is a dict, and the dict.
Eval(text) ==
    CASE text = "{bad" ->
           [exc |-> "SyntaxError", isdict |-> FALSE, val |-> EmptyDict]
      [] text = "[1, 2]" ->
           [exc |-> "none", isdict |-> FALSE, val |-> EmptyDict]
      [] text = "bad_name" ->
           [exc |-> "NameError", isdict |-> FALSE, val |-> EmptyDict]
      [] text = "{'limit': 1000}" ->
           [exc |-> "none", isdict |-> TRUE,
            val |-> Put(EmptyDict, "limit", V("num", 1000))]
      [] text = "{'recorded_at_time_to': 'x', 'lon__greater_or_equal': 0}" ->
           [exc |-> "none", isdict |-> TRUE,
            val |-> Put(Put(EmptyDict, "recorded_at_time_to", V("text", 1)),
                        "lon__greater_or_equal", V("num", 0))]
      [] OTHER ->
           [exc |-> "SyntaxError", isdict |-> FALSE, val |-> EmptyDict]

\* What the try block of lines 115-117 raises: eval's own exception, or the
\* TypeError raised for a value that is not a dict.
RaisedAtParse(text) ==
    LET r == Eval(text)
    IN  IF r.exc # "none" THEN r.exc
        ELSE IF ~r.isdict THEN "TypeError"
        ELSE "none"

\* except (SyntaxError, TypeError)
CaughtAtParse_OnlyTypeError(exc) == exc = "TypeError"
CaughtAtParse(exc) == exc \in {"SyntaxError", "TypeError"}

\* QgsCoordinateTransform between the two reference systems the algorithm
\* uses, on an integer grid: an abstraction of the projection that keeps it a
\* conversion (neither direction is the identity).
Transform(src, dst, p) ==
    IF src = dst THEN p
    ELSE IF dst = "EPSG:2039"
         THEN [x |-> p.x * 10 + 5, y |-> p.y * 10 + 7]
         ELSE [x |-> (p.x - 5) \div 10, y |-> (p.y - 7) \div 10]

NullExtent ==
    [isNull |-> TRUE, crs |-> "EPSG:4326",
     xmin |-> 0, xmax |-> 0, ymin |-> 0, ymax |-> 0]

Extents ==
    { NullExtent,
      [isNull |-> FALSE, crs |-> "EPSG:2039",
       xmin |-> 345, xmax |-> 355, ymin |-> 317, ymax |-> 327] }

\* transform.transform(extent) and the four bounds written at lines 125-128
ExtentParams(p, ext) ==
    IF ext.isNull THEN p
    ELSE LET lo == Transform(ext.crs, "EPSG:4326", [x |-> ext.xmin, y |-> ext.ymin])
             hi == Transform(ext.crs, "EPSG:4326", [x |-> ext.xmax, y |-> ext.ymax])
         IN  Put(Put(Put(Put(p,
                 "lon__greater_or_equal", V("num", lo.x)),
                 "lon__lower_or_equal", V("num", hi.x)),
                 "lat__greater_or_equal", V("num", lo.y)),
                 "lat__lower_or_equal", V("num", hi.y))

\* QDateTime values: an invalid one, and seconds since the start of day 0.
InvalidTime == [valid |-> FALSE, secs |-> 0]
StartTimes == { InvalidTime, [valid |-> TRUE, secs |-> 86370] }

Durations == (0 - 1) .. 1

\* QDateTime.addSecs
AddSecs(dt, n) == [valid |-> dt.valid, secs |-> dt.secs + n]

\* QDateTime.toString(iso_format): the date and time fields, written out as
\* the decimal digits ddHHmmss of day, hour, minute and second.
ToString(dt) ==
    LET day == dt.secs \div 86400
        hh  == (dt.secs % 86400) \div 3600
        mm  == (dt.secs % 3600) \div 60
        ss  == dt.secs % 60
    IN  V("text", ((day * 100 + hh) * 100 + mm) * 100 + ss)

\* lines 131-138: recorded_at_time_from and recorded_at_time_to
TimeParams_NoDurationGuard(p, st, dur) ==
    IF st.valid
    THEN Put(Put(p, "recorded_at_time_from", ToString(st)),
             "recorded_at_time_to", ToString(AddSecs(st, dur * 60)))
    ELSE p
TimeParams(p, st, dur) ==
    IF st.valid
    THEN LET p1 == Put(p, "recorded_at_time_from", ToString(st))
         IN  IF dur > 0
             THEN Put(p1, "recorded_at_time_to", ToString(AddSecs(st, dur * 60)))
             ELSE p1
    ELSE p

\* The notices lines 133 and 138 push.
TimeInfos(st, dur) ==
    IF st.valid
    THEN IF dur > 0 THEN {"from", "to"} ELSE {"from"}
    ELSE {}

\* urllib.parse.urlencode: every value becomes its quoted text, so a number
\* and a string with the same digits encode alike.
Urlencode(p) == [k \in DOMAIN p |-> V("quoted", p[k].v)]

NoError == [kind |-> "none", status |-> 0]
NoJson == [kind |-> "None", items |-> <<>>]
NoReply == [error |-> FALSE, status |-> 0, body |-> "none", json |-> NoJson]
Raise(kind, status) == [kind |-> kind, status |-> status]


Init ==
    /\ pc = "start"
    /\ params_str \in ParamTexts
    /\ extent \in Extents
    /\ start_time \in StartTimes
    /\ duration_minutes \in Durations
    /\ params = EmptyDict
    /\ url = EmptyDict
    /\ getCount = 0
    /\ reply = NoReply
    /\ released = 0
    /\ data = [kind |-> "list", items |-> <<>>]
    /\ parsedOk = FALSE
    /\ sinkOpened = 0
    /\ sink = <<>>
    /\ i = 0
    /\ canceled = FALSE
    /\ cancelObserved = FALSE
    /\ progress = <<>>
    /\ infos = {}
    /\ result = "unset"
    /\ error = NoError

\* lines 113-119: params = eval(params_str), or InvalidParameterFormat
ParseParams ==
    /\ pc = "start"
    /\ IF params_str = ""
       THEN /\ pc' = "build"
            /\ UNCHANGED <<params, error>>
       ELSE LET exc == RaisedAtParse(params_str)
            IN  IF exc = "none"
                THEN /\ params' = Eval(params_str).val
                     /\ pc' = "build"
                     /\ UNCHANGED error
                ELSE /\ pc' = "failed"
                     /\ error' = IF CaughtAtParse(exc)
                                 THEN Raise("InvalidParameterFormat", 0)
                                 ELSE Raise(exc, 0)
                     /\ UNCHANGED params
    /\ UNCHANGED <<params_str, extent, start_time, duration_minutes, url,
                   getCount, reply, released, data, parsedOk, sinkOpened, sink,
                   i, canceled, cancelObserved, progress, infos, result>>

\* lines 121-144: extent bounds, time window, query string and URL
BuildQuery ==
    /\ pc = "build"
    /\ LET p == TimeParams(ExtentParams(params, extent), start_time, duration_minutes)
       IN  /\ params' = p
           /\ url' = Urlencode(p)
    /\ infos' = infos \cup TimeInfos(start_time, duration_minutes) \cup {"request"}
    /\ pc' = "request"
    /\ UNCHANGED <<params_str, extent, start_time, duration_minutes,
                   getCount, reply, released, data, parsedOk, sinkOpened, sink,
                   i, canceled, cancelObserved, progress, result, error>>


----------------------------------------------------------------------------
(* The reply and the decoded response                                      *)

\* Upstream records the response may hold.
SampleRecords ==
    { \* every coordinate present and numeric, an extra upstream field
      Dict({ <<"id", V("num", 1)>>, <<"lon", V("num", 34)>>, <<"lat", V("num", 32)>>,
             <<"siri_snapshot_id", V("num", 7)>>,
             <<"recorded_at_time", V("isotext", 5)>>,
             <<"siri_ride__vehicle_ref", V("text", 3)>>,
             <<"extra", V("text", 1)>> }),
      \* lon and a renamed field are null; a timestamp that is no ISO date
      Dict({ <<"id", V("num", 2)>>, <<"lon", None>>, <<"lat", V("num", 32)>>,
             <<"siri_ride__id", None>>,
             <<"recorded_at_time", V("text", 4)>> }),
      \* lat is missing; lon is numeric text; an upstream field named like an
      \* output field the key map renames
      Dict({ <<"id", V("num", 3)>>, <<"lon", V("numtext", 34)>>,
             <<"snapshot_id", V("num", 9)>> }),
      \* lon is text float() rejects
      Dict({ <<"id", V("num", 4)>>, <<"lon", V("text", 2)>>, <<"lat", V("num", 32)>>,
             <<"siri_snapshot_id", V("num", 8)>> }),
      \* a timestamp that is a number
      Dict({ <<"id", V("num", 5)>>, <<"lon", V("num", 35)>>, <<"lat", V("numtext", 31)>>,
             <<"siri_ride__scheduled_start_time", V("num", 17)>> }) }

RecordLists == UNION { [1..n -> SampleRecords] : n \in 0..MaxRecords }

\* Values json.loads may return.
JsonValues ==
    { [kind |-> "object", items |-> <<>>], [kind |-> "None", items |-> <<>>] }
    \cup { [kind |-> "list", items |-> l] : l \in RecordLists }


\* Finished replies: reply.error(), the HTTP status attribute (0 when there
\* is none) and the body.
Replies ==
    { [error |-> TRUE, status |-> 0, body |-> "none", json |-> NoJson],
      [error |-> TRUE, status |-> 503, body |-> "none", json |-> NoJson],
      [error |-> FALSE, status |-> 204, body |-> "none", json |-> NoJson],
      [error |-> FALSE, status |-> 301, body |-> "none", json |-> NoJson],
      [error |-> FALSE, status |-> 200, body |-> "bad_utf8", json |-> NoJson],
      [error |-> FALSE, status |-> 200, body |-> "bad_json", json |-> NoJson] }
    \cup { [error |-> FALSE, status |-> 200, body |-> "json", json |-> j] :
             j \in JsonValues }

\* lines 157-170: what the try block raises for a reply (NoError when it
\* reaches the end): the network error, the status error, the decode error
\* that no handler catches, or the JSON error re-raised at line 170.
ReplyOutcome_NoStatusCheck(r) ==
    IF r.error THEN Raise("NetworkError", 0)
    ELSE IF r.body = "bad_utf8" THEN Raise("UnicodeDecodeError", 0)
    ELSE IF r.body = "bad_json" THEN Raise("ResponseParseError", 0)
    ELSE NoError
ReplyOutcome(r) ==
    IF r.error THEN Raise("NetworkError", 0)
    ELSE IF r.status # 200 THEN Raise("HttpStatusError", r.status)
    ELSE IF r.body = "bad_utf8" THEN Raise("UnicodeDecodeError", 0)
    ELSE IF r.body = "bad_json" THEN Raise("ResponseParseError", 0)
    ELSE NoError

\* lines 171-173: finally: reply.deleteLater(), whatever the try block did
Release_OnlyOnSuccess(outcome, n) == IF outcome = NoError THEN n + 1 ELSE n
Release(outcome, n) == n + 1

\* line 176: isinstance(data, list) and data
HasData_AnyList(d) == d.kind = "list"
HasData(d) == d.kind = "list" /\ Len(d.items) > 0

\* lines 147-154: manager.get(request) and the wait for reply.finished
IssueGet ==
    /\ pc = "request"
    /\ getCount' = getCount + 1
    /\ reply' \in Replies
    /\ pc' = "waiting"
    /\ UNCHANGED <<params_str, extent, start_time, duration_minutes, params, url,
                   released, data, parsedOk, sinkOpened, sink, i, canceled,
                   cancelObserved, progress, infos, result, error>>

\* lines 156-174: classify the reply, decode the body, release the reply
HandleReply ==
    /\ pc = "waiting"
    /\ LET outcome == ReplyOutcome(reply)
       IN  /\ released' = Release(outcome, released)
           /\ IF outcome = NoError
              THEN /\ data' = reply.json
                   /\ parsedOk' = TRUE
                   /\ pc' = "fetched"
                   /\ UNCHANGED error
              ELSE /\ error' = outcome
                   /\ pc' = "failed"
                   /\ UNCHANGED <<data, parsedOk>>
    /\ UNCHANGED <<params_str, extent, start_time, duration_minutes, params, url,
                   getCount, reply, sinkOpened, sink, i, canceled,
                   cancelObserved, progress, infos, result>>

\* lines 176-178: the "no data" return
CheckData ==
    /\ pc = "fetched"
    /\ IF HasData(data)
       THEN /\ pc' = "opensink"
            /\ UNCHANGED <<infos, result>>
       ELSE /\ infos' = infos \cup {"nodata"}
            /\ result' = "None"
            /\ pc' = "done"
    /\ UNCHANGED <<params_str, extent, start_time, duration_minutes, params, url,
                   getCount, reply, released, data, parsedOk, sinkOpened, sink,
                   i, canceled, cancelObserved, progress, error>>

\* lines 203-213: parameterAsSink, which may return no sink
OpenSink ==
    /\ pc = "opensink"
    /\ sinkOpened' = sinkOpened + 1
    /\ \E gotSink \in BOOLEAN :
         IF gotSink
         THEN /\ pc' = "loop"
              /\ infos' = infos \cup {"processing"}
              /\ UNCHANGED error
         ELSE /\ pc' = "failed"
              /\ error' = Raise("SinkUnavailable", 0)
              /\ UNCHANGED infos
    /\ UNCHANGED <<params_str, extent, start_time, duration_minutes, params, url,
                   getCount, reply, released, data, parsedOk, sink, i, canceled,
                   cancelObserved, progress, result>>


----------------------------------------------------------------------------
(* Schema mapping, geometry and emission                                   *)

\* lines 181-188
field_definitions ==
    << [name |-> "id", type |-> "LongLong"],
       [name |-> "snapshot_id", type |-> "LongLong"],
       [name |-> "ride_stop_id", type |-> "LongLong"],
       [name |-> "recorded_at", type |-> "DateTime"],
       [name |-> "lon", type |-> "Double"],
       [name |-> "lat", type |-> "Double"],
       [name |-> "bearing", type |-> "Int"],
       [name |-> "velocity", type |-> "Int"],
       [name |-> "dist_from_start", type |-> "Int"],
       [name |-> "dist_from_stop", type |-> "Double"],
       [name |-> "snapshot_str", type |-> "String"],
       [name |-> "route_id", type |-> "Int"],
       [name |-> "line_ref", type |-> "Int"],
       [name |-> "operator_ref", type |-> "Int"],
       [name |-> "ride_id", type |-> "LongLong"],
       [name |-> "journey_ref", type |-> "String"],
       [name |-> "scheduled_start", type |-> "DateTime"],
       [name |-> "vehicle_ref", type |-> "String"] >>

\* lines 192-198: <<upstream name, output name>>, in the dict's order
key_map ==
    << <<"siri_snapshot_id", "snapshot_id">>,
       <<"siri_ride_stop_id", "ride_stop_id">>,
       <<"recorded_at_time", "recorded_at">>,
       <<"distance_from_journey_start", "dist_from_start">>,
       <<"distance_from_siri_ride_stop_meters", "dist_from_stop">>,
       <<"siri_snapshot__snapshot_id", "snapshot_str">>,
       <<"siri_route__id", "route_id">>,
       <<"siri_route__line_ref", "line_ref">>,
       <<"siri_route__operator_ref", "operator_ref">>,
       <<"siri_ride__id", "ride_id">>,
       <<"siri_ride__journey_ref", "journey_ref">>,
       <<"siri_ride__scheduled_start_time", "scheduled_start">>,
       <<"siri_ride__vehicle_ref", "vehicle_ref">> >>

\* line 229: the first key of key_map whose value is the field's name, or
\* the field's name
original_key_NoKeyMap(name) == name
original_key(name) ==
    LET hits == {n \in 1..Len(key_map) : key_map[n][2] = name}
    IN  IF hits = {} THEN name
        ELSE key_map[CHOOSE n \in hits : \A m \in hits : n <= m][1]

\* QDateTime.fromString(val, Qt.ISODate) of a string: a valid date-time for
\* an ISO date, an invalid one for any other text.
FromString(val) ==
    IF val.kind = "isotext" THEN V("QDateTime", val.v) ELSE V("QDateTimeInvalid", 0)

\* lines 230-238: one slot of the attribute list
AttributeValue(field, item) ==
    LET val == Get(item, original_key(field.name))
    IN  IF val = None THEN V("QVariantNull", 0)
        ELSE IF field.type = "DateTime" THEN FromString(val)
        ELSE val

\* QDateTime.fromString raises TypeError for an argument that is not a
\* string; nothing in the loop catches it.
AttributeRaises(item) ==
    \E n \in 1..Len(field_definitions) :
        LET val == Get(item, original_key(field_definitions[n].name))
        IN  /\ val # None
            /\ field_definitions[n].type = "DateTime"
            /\ val.kind \in {"num", "list"}

\* lines 227-238
Attributes(item) ==
    [n \in 1..Len(field_definitions) |-> AttributeValue(field_definitions[n], item)]

\* float(x): the exception it raises, or "none"
FloatRaises(val) ==
    CASE val.kind \in {"num", "numtext"} -> "none"
      [] val.kind \in {"text", "isotext"} -> "ValueError"
      [] OTHER -> "TypeError"

\* line 219
HasCoordinates(item) == Get(item, "lon") # None /\ Get(item, "lat") # None

\* lines 220-225: the try block raises ValueError or TypeError, and the
\* handler leaves the iteration by continue
GeometryRaises(item) ==
    /\ HasCoordinates(item)
    /\ \/ FloatRaises(item["lon"]) # "none"
       \/ FloatRaises(item["lat"]) # "none"

NoGeometry == [has |-> FALSE, x |-> 0, y |-> 0]

\* lines 219-223: the feature's geometry
Geometry(item) ==
    IF HasCoordinates(item)
    THEN LET q == Transform("EPSG:4326", "EPSG:2039",
                            [x |-> item["lon"].v, y |-> item["lat"].v])
         IN  [has |-> TRUE, x |-> q.x, y |-> q.y]
    ELSE NoGeometry

\* line 242: int((i + 1) / total * 100); the float expression and the exact
\* floor agree for every total below 50
Progress(n, total) == ((n + 1) * 100) \div total

Total == Len(data.items)
Item == data.items[i + 1]

\* line 216 with line 244: cancellation seen at the top of an iteration
LoopBreak ==
    /\ pc = "loop" /\ i < Total
    /\ canceled
    /\ cancelObserved' = TRUE
    /\ result' = "dest_id"
    /\ pc' = "done"
    /\ UNCHANGED <<params_str, extent, start_time, duration_minutes, params, url,
                   getCount, reply, released, data, parsedOk, sinkOpened, sink,
                   i, canceled, progress, infos, error>>

\* lines 216-225: a coordinate float() rejects: continue
LoopSkip ==
    /\ pc = "loop" /\ i < Total
    /\ ~canceled
    /\ GeometryRaises(Item)
    /\ i' = i + 1
    /\ UNCHANGED <<pc, params_str, extent, start_time, duration_minutes, params,
                   url, getCount, reply, released, data, parsedOk, sinkOpened,
                   sink, canceled, cancelObserved, progress, infos, result,
                   error>>

\* lines 216-236: the TypeError of QDateTime.fromString leaves the algorithm
LoopRaise ==
    /\ pc = "loop" /\ i < Total
    /\ ~canceled
    /\ ~GeometryRaises(Item)
    /\ AttributeRaises(Item)
    /\ error' = Raise("TypeError", 0)
    /\ pc' = "failed"
    /\ UNCHANGED <<params_str, extent, start_time, duration_minutes, params, url,
                   getCount, reply, released, data, parsedOk, sinkOpened, sink,
                   i, canceled, cancelObserved, progress, infos, result>>

\* lines 216-242: one feature added, progress reported
LoopEmit ==
    /\ pc = "loop" /\ i < Total
    /\ ~canceled
    /\ ~GeometryRaises(Item)
    /\ ~AttributeRaises(Item)
    /\ sink' = Append(sink, [src |-> i + 1, geom |-> Geometry(Item),
                             attrs |-> Attributes(Item)])
    /\ progress' = Append(progress, Progress(i, Total))
    /\ i' = i + 1
    /\ UNCHANGED <<pc, params_str, extent, start_time, duration_minutes, params,
                   url, getCount, reply, released, data, parsedOk, sinkOpened,
                   canceled, cancelObserved, infos, result, error>>

\* line 244: the loop ran out of records
Return ==
    /\ pc = "loop" /\ i = Total
    /\ result' = "dest_id"
    /\ pc' = "done"
    /\ UNCHANGED <<params_str, extent, start_time, duration_minutes, params, url,
                   getCount, reply, released, data, parsedOk, sinkOpened, sink,
                   i, canceled, cancelObserved, progress, infos, error>>

\* The caller cancels through the feedback object, at any time while the
\* algorithm runs.
Cancel ==
    /\ pc \notin {"done", "failed"}
    /\ ~canceled
    /\ canceled' = TRUE
    /\ UNCHANGED <<pc, params_str, extent, start_time, duration_minutes, params,
                   url, getCount, reply, released, data, parsedOk, sinkOpened,
                   sink, i, cancelObserved, progress, infos, result, error>>

Next ==
    \/ ParseParams
    \/ BuildQuery
    \/ IssueGet
    \/ HandleReply
    \/ CheckData
    \/ OpenSink
    \/ LoopBreak
    \/ LoopSkip
    \/ LoopRaise
    \/ LoopEmit
    \/ Return
    \/ Cancel

Spec == Init /\ [][Next]_vars


----------------------------------------------------------------------------
(* Properties                                                              *)

\* BuildQuery has run: the final query-parameter mapping exists.
QueryBuilt == pc \notin {"start", "build"} /\ ~(pc = "failed" /\ getCount = 0)

\* HandleReply has run.
ReplyHandled == getCount = 1 /\ pc \in {"fetched", "opensink", "loop", "done", "failed"}

\* The typed null of an attribute slot.
TypedNull == V("QVariantNull", 0)

\* A coordinate that is present and that float() cannot convert.
NonNumeric(val) == val.kind \in {"text", "isotext", "list"}
BadCoordinates(item) ==
    /\ "lon" \in DOMAIN item /\ item["lon"] # None
    /\ "lat" \in DOMAIN item /\ item["lat"] # None
    /\ (NonNumeric(item["lon"]) \/ NonNumeric(item["lat"]))

\* A coordinate that is missing or null.
MissingCoordinates(item) ==
    \/ "lon" \notin DOMAIN item
    \/ "lat" \notin DOMAIN item
    \/ item["lon"] = None
    \/ item["lat"] = None

\* The indexes of the sink's features that came from record j.
FeaturesOf(j) == {n \in 1..Len(sink) : sink[n].src = j}

\* C1: every record already passed by the loop whose lon or lat is present
\* but not convertible to a float has a feature in the sink, without geometry
\* and with its 18 attributes.
C1_NonNumericCoordinateStillEmitted ==
    \A j \in 1..i :
        BadCoordinates(data.items[j]) =>
            \E n \in FeaturesOf(j) :
                /\ ~sink[n].geom.has
                /\ Len(sink[n].attrs) = 18

C4_NoDataIsNotAnError ==
    ( /\ parsedOk
      /\ pc # "fetched"
      /\ ~(data.kind = "list" /\ Len(data.items) >= 1) )
    => ( /\ pc = "done"
         /\ result = "None"
         /\ error = NoError
         /\ "nodata" \in infos
         /\ sinkOpened = 0
         /\ sink = <<>> )

C4_Witness ==
    /\ parsedOk
    /\ data = [kind |-> "list", items |-> <<>>]
    /\ pc = "done"
    /\ result = "None"

\* C5: once the GET request is issued, the reply is released exactly once on
\* every path that follows; it is never released before the reply is handled
\* nor without a request.
C5_ReplyReleasedExactlyOnce ==
    /\ released <= getCount
    /\ pc = "waiting" => released = 0
    /\ ReplyHandled => released = 1

C5_Witness ==
    /\ pc = "done"
    /\ cancelObserved
    /\ Len(sink) >= 1
    /\ released = 1

\* C6: once cancellation is observed the algorithm stops and returns the
\* sink result without an error, and the features in the sink are those of a
\* prefix of the input records.
C6_CancelledRunKeepsPrefix ==
    cancelObserved =>
        ( /\ pc = "done"
          /\ result = "dest_id"
          /\ error = NoError
          /\ \A n \in 1..Len(sink) : sink[n].src = n )

\* C7: progress is reported after each record, every value lies in 0..100,
\* the values never decrease, and a run that was not cancelled reports 100
\* last.
C7_ProgressAfterEachRecord ==
    /\ Len(progress) = i
    /\ \A n \in 1..Len(progress) : progress[n] \in 0..100
    /\ \A n \in 1..(Len(progress) - 1) : progress[n] <= progress[n + 1]
    /\ (pc = "done" /\ result = "dest_id" /\ ~canceled)
       => (Len(progress) >= 1 /\ progress[Len(progress)] = 100)

\* C8: a record whose lon or lat is missing or null gets exactly one feature,
\* without geometry and with its attributes; a run that was not cancelled
\* writes one feature per record, in input order.
C8_OneFeaturePerRecord ==
    /\ \A j \in 1..i :
           MissingCoordinates(data.items[j]) =>
               /\ Cardinality(FeaturesOf(j)) = 1
               /\ \A n \in FeaturesOf(j) :
                      ~sink[n].geom.has /\ Len(sink[n].attrs) = 18
    /\ (pc = "done" /\ result = "dest_id" /\ ~canceled)
       => ( /\ Len(sink) = Len(data.items)
            /\ \A n \in 1..Len(sink) : sink[n].src = n )

\* The extra-parameters mapping the user supplied.
ExtraParams == IF params_str = "" THEN EmptyDict ELSE Eval(params_str).val

\* C9 as stated: with a duration that is not positive, the final mapping
\* and the query sent hold no recorded_at_time_to key, whatever the extra
\* parameters hold.
C9_NoEndTimeWhateverExtraParams ==
    (QueryBuilt /\ duration_minutes <= 0)
    => ( /\ "recorded_at_time_to" \notin DOMAIN params
         /\ "recorded_at_time_to" \notin DOMAIN url )

\* C9 as amended: with a duration that is not positive (or no valid start
\* time) the final mapping holds recorded_at_time_to only as the extra
\* parameters supplied it, with their value; with a valid start time and a
\* positive duration it holds the text of start time + duration*60 seconds.
C9_EndTimeOnlyComputedForPositiveDuration ==
    QueryBuilt =>
        /\ (duration_minutes <= 0 \/ ~start_time.valid)
           => ( /\ ("recorded_at_time_to" \in DOMAIN params)
                   <=> ("recorded_at_time_to" \in DOMAIN ExtraParams)
                /\ ("recorded_at_time_to" \in DOMAIN url)
                   <=> ("recorded_at_time_to" \in DOMAIN ExtraParams)
                /\ "recorded_at_time_to" \in DOMAIN ExtraParams
                   => params["recorded_at_time_to"] = ExtraParams["recorded_at_time_to"] )
        /\ (duration_minutes > 0 /\ start_time.valid)
           => ( /\ "recorded_at_time_to" \in DOMAIN params
                /\ params["recorded_at_time_to"] =
                     ToString([valid |-> TRUE,
                               secs |-> start_time.secs + duration_minutes * 60]) )

C9_Witness ==
    /\ QueryBuilt
    /\ duration_minutes <= 0
    /\ start_time.valid
    /\ "recorded_at_time_from" \in DOMAIN url
    /\ "recorded_at_time_to" \notin DOMAIN url

\* The upstream name each of the 18 output fields is read from.
ExpectedKeys ==
    << "id", "siri_snapshot_id", "siri_ride_stop_id", "recorded_at_time",
       "lon", "lat", "bearing", "velocity", "distance_from_journey_start",
       "distance_from_siri_ride_stop_meters", "siri_snapshot__snapshot_id",
       "siri_route__id", "siri_route__line_ref", "siri_route__operator_ref",
       "siri_ride__id", "siri_ride__journey_ref",
       "siri_ride__scheduled_start_time", "siri_ride__vehicle_ref" >>

\* The slots of the two timestamp fields.
TimestampSlots == {4, 17}

Upstream(item, k) ==
    IF ExpectedKeys[k] \in DOMAIN item THEN item[ExpectedKeys[k]] ELSE None

\* C10: every feature in the sink has 18 attributes in the fixed order, each
\* read under the upstream name of its field; an absent or null upstream
\* value gives a typed null, other fields of the record are ignored, and an
\* exception leaves the mapping only for a timestamp value that is present
\* and is not a string.
C10_AttributesFollowSchema ==
    /\ \A n \in 1..Len(sink) :
           LET f == sink[n]
               item == data.items[f.src]
           IN  /\ Len(f.attrs) = 18
               /\ \A k \in 1..18 :
                      LET val == Upstream(item, k)
                      IN  /\ (val = None) <=> (f.attrs[k] = TypedNull)
                          /\ (val # None /\ k \notin TimestampSlots)
                             => f.attrs[k] = val
                          /\ (val # None /\ k \in TimestampSlots)
                             => f.attrs[k].kind \in {"QDateTime", "QDateTimeInvalid"}
    /\ error.kind = "TypeError"
       => \E k \in TimestampSlots :
              Upstream(data.items[i + 1], k).kind \in {"num", "list"}

C10_Witness ==
    \E n \in 1..Len(sink) :
        /\ "extra" \in DOMAIN data.items[sink[n].src]
        /\ sink[n].attrs[2] = V("num", 7)
        /\ sink[n].attrs[3] = TypedNull
        /\ sink[n].attrs[4] = V("QDateTime", 5)


====
